---- MODULE Spec2Model ----
(***************************************************************************)
(* Model of the FastAPI service in src/app: the authentication middleware  *)
(* (middleware.py), the Keycloak client (auth.py), the routes (main.py)    *)
(* and the inference client (rag.py).                                      *)
(*                                                                         *)
(* One request is followed from its arrival to the outcome of              *)
(* AuthMiddleware.dispatch.  The identity provider and the inference       *)
(* provider are the environment: each outbound call draws its outcome      *)
(* from a small set.  dispatch is cut into steps at its await points.      *)
(*                                                                         *)
(* An Authorization header value is a sequence of symbols: the word        *)
(* "Bearer", a space, a JWT with an exp claim and a JWT without one; any   *)
(* other sequence of them is text that is no JWT.  A request path is       *)
(* the sequence of its segments ("/docs/oauth2-redirect" is                *)
(* <<"docs", "oauth2-redirect">>).  A Python dict is a function whose      *)
(* DOMAIN is its key set.  The outcome of dispatch is the response it      *)
(* returns or the HTTPException it raises, written as a response with      *)
(* that exception's status and detail.  jwt.decode is modelled as PyJWT 2  *)
(* behaves with verify_signature off: it checks the structure only.        *)
(***************************************************************************)
EXTENDS Integers, Sequences, FiniteSets, TLC

VARIABLES
    huggingface_api_key,  \* RAGPipeline.huggingface_api_key is set
    pc,                   \* position of the request in dispatch
    request,              \* [path, headers, cookies] of the request
    token,                \* the token dispatch extracted from the header
    request_state,        \* request.state, as a dict
    validate_error,       \* the HTTPException validate_token raised (e)
    new_tokens,           \* the dict refresh_token returned
    branch,               \* the call_next site reached: exempt, authorized, refreshed
    calls,                \* calls dispatch made, in order
    io,                   \* outbound calls made and what the provider did
    handler_response,     \* the response call_next returned
    handler_saw,          \* request.state and Authorization as the handler saw them
    rag_status,           \* status of the HTTPException RAGPipeline.predict raised, 0 if none
    raised,               \* dispatch ended by raising an HTTPException
    response,             \* the outcome of dispatch
    stream                \* the body of the StreamingResponse of /generate

vars == <<huggingface_api_key, pc, request, token, request_state, validate_error,
          new_tokens, branch, calls, io, handler_response, handler_saw,
          rag_status, raised, response, stream>>

-----------------------------------------------------------------------------
(* Bounds and input sets *)

MaxHeaderLen == 3

HeaderSymbols == {"Bearer", " ", "jwtExp", "jwtNoExp"}

HeaderValues == UNION {[1..n -> HeaderSymbols] : n \in 0..MaxHeaderLen}

EmptyDict == <<>>

AuthorizationHeaders ==
    {EmptyDict} \cup {[Authorization |-> h] : h \in HeaderValues}

CookieJars ==
    {EmptyDict} \cup {[refresh_token |-> v] : v \in {"", "rt1"}}

Paths ==
    { <<"login">>, <<"docs">>, <<"openapi.json">>, <<"redoc">>,
      <<"predict">>, <<"generate">>,
      <<"login", "">>, <<"docs", "oauth2-redirect">> }

Requests ==
    [path : Paths, headers : AuthorizationHeaders, cookies : CookieJars]

TokenValue(k) == IF k = "access_token" THEN "at2" ELSE "rt2"

TokenPayloads ==
    {[k \in keys |-> TokenValue(k)] : keys \in SUBSET {"access_token", "refresh_token"}}

UserInfos == { [preferred_username |-> "alice"], [sub |-> "u1"] }

KeycloakStatus == {200, 400, 401, 503}

InferenceStatus == {200, 404, 429, 503}

NoCall == [kind |-> "none", status_code |-> 0, json |-> EmptyDict]

Timeout == [kind |-> "timeout", status_code |-> 0, json |-> EmptyDict]

TransportError == [kind |-> "error", status_code |-> 0, json |-> EmptyDict]

ConnectError == [kind |-> "connect", status_code |-> 0, json |-> EmptyDict]

HttpResponse(code, json) == [kind |-> "response", status_code |-> code, json |-> json]

TokenEndpointOutcomes ==
    {Timeout, TransportError}
    \cup {HttpResponse(200, p) : p \in TokenPayloads}
    \cup {HttpResponse(s, EmptyDict) : s \in KeycloakStatus \ {200}}

UserinfoOutcomes ==
    {Timeout, TransportError}
    \cup {HttpResponse(200, u) : u \in UserInfos}
    \cup {HttpResponse(s, EmptyDict) : s \in KeycloakStatus \ {200}}

InferenceOutcomes ==
    {Timeout, TransportError, ConnectError}
    \cup {HttpResponse(200, [generated_text |-> "out"])}
    \cup {HttpResponse(s, EmptyDict) : s \in InferenceStatus \ {200}}

-----------------------------------------------------------------------------
(* Exceptions, results and responses *)

HTTPException(code, detail) ==
    [type |-> "HTTPException", status_code |-> code, detail |-> detail]

KeyError(key) == [type |-> "KeyError", status_code |-> 0, detail |-> key]

InvalidTokenError == [type |-> "InvalidTokenError", status_code |-> 0, detail |-> ""]

NoException == [type |-> "None", status_code |-> 0, detail |-> ""]

Return(v) == [raised |-> FALSE, value |-> v, exc |-> NoException]

Raise(e) == [raised |-> TRUE, value |-> EmptyDict, exc |-> e]

Response(code, detail, content) ==
    [status_code |-> code, detail |-> detail, content |-> content,
     headers |-> EmptyDict, cookies |-> <<>>]

NoResponse == Response(0, "", EmptyDict)

ErrorResponse(e) == Response(e.status_code, e.detail, EmptyDict)

SetItem(d, key, v) ==
    [k \in DOMAIN d \cup {key} |-> IF k = key THEN v ELSE d[k]]

-----------------------------------------------------------------------------
(* Strings, cookies and tokens *)

startswith(s, prefix) ==
    /\ Len(s) >= Len(prefix)
    /\ SubSeq(s, 1, Len(prefix)) = prefix

RECURSIVE split(_, _)
split(s, sep) ==
    IF \A i \in 1..Len(s) : s[i] # sep
    THEN <<s>>
    ELSE LET i == CHOOSE n \in 1..Len(s) :
                      s[n] = sep /\ \A j \in 1..(n - 1) : s[j] # sep
         IN  <<SubSeq(s, 1, i - 1)>> \o split(SubSeq(s, i + 1, Len(s)), sep)

BearerPrefix == <<"Bearer", " ">>

get(d, key, default) == IF key \in DOMAIN d THEN d[key] ELSE default

LoginMaxAge == 1800

set_cookie(resp, cookie) == [resp EXCEPT !.cookies = Append(@, cookie)]

jwt_decode(tok) ==
    IF tok = <<"jwtExp">> THEN Return([exp |-> "t", sub |-> "u1"])
    ELSE IF tok = <<"jwtNoExp">> THEN Return([sub |-> "u1"])
    ELSE Raise(InvalidTokenError)

-----------------------------------------------------------------------------
(* auth.py: KeycloakAuth *)

authenticate_user(out) ==
    IF out.kind = "timeout"
    THEN Raise(HTTPException(504, "Authentication request timed out"))
    ELSE IF out.kind # "response"
    THEN Raise(HTTPException(500, "Unexpected error during authentication"))
    ELSE IF out.status_code = 200
    THEN Return(out.json)
    ELSE Raise(HTTPException(out.status_code, "Authentication failed"))

validate_token(tok, out) ==
    IF tok = <<>>
    THEN Raise(HTTPException(401, "No token provided"))
    ELSE IF out.kind = "timeout"
    THEN Raise(HTTPException(504, "Token validation request timed out"))
    ELSE IF out.kind # "response"
    THEN Raise(HTTPException(500, "Token validation failed"))
    ELSE IF out.status_code = 200
    THEN Return(out.json)
    ELSE IF out.status_code = 401
    THEN Raise(HTTPException(401, "Invalid or expired token"))
    ELSE Raise(HTTPException(500, "Token validation failed"))

refresh_token(rt, out) ==
    IF out.kind = "timeout"
    THEN Raise(HTTPException(504, "Token refresh request timed out"))
    ELSE IF out.kind # "response"
    THEN Raise(HTTPException(500, "Unexpected error during token refresh"))
    ELSE IF out.status_code = 200
    THEN Return(out.json)
    ELSE Raise(HTTPException(401, "Token refresh failed"))

-----------------------------------------------------------------------------
(* rag.py: RAGPipeline, and main.py: the routes *)

RAGPipeline_predict(api_key, out) ==
    IF ~api_key
    THEN Raise(HTTPException(500, "HUGGINGFACE_API_KEY not set"))
    ELSE IF out.kind = "connect"
    THEN Raise(HTTPException(503, "Failed to connect to Hugging Face API"))
    ELSE IF out.kind = "timeout"
    THEN Raise(HTTPException(504, "Request to Hugging Face API timed out"))
    ELSE IF out.kind = "error"
    THEN Raise(HTTPException(503, "Request to Hugging Face API failed"))
    ELSE IF out.kind # "response"
    THEN Raise(HTTPException(500, "Unexpected error during prediction"))
    ELSE IF out.status_code = 200
    THEN Return(out.json)
    ELSE Raise(HTTPException(out.status_code, "Prediction failed"))

RAGPipeline_generate(api_key, out) ==
    IF ~api_key
    THEN Raise(HTTPException(500, "HUGGINGFACE_API_KEY not set"))
    ELSE IF out.kind = "connect"
    THEN Raise(HTTPException(503, "Failed to connect to Hugging Face API"))
    ELSE IF out.kind = "timeout"
    THEN Raise(HTTPException(504, "Request to Hugging Face API timed out"))
    ELSE IF out.kind = "error"
    THEN Raise(HTTPException(503, "Request to Hugging Face API failed"))
    ELSE IF out.kind # "response"
    THEN Raise(HTTPException(500, "Unexpected error during generation"))
    ELSE IF out.status_code = 200
    THEN Return(<<out.json>>)
    ELSE Raise(HTTPException(out.status_code, "Generation failed"))

login(out) ==
    LET tokens == authenticate_user(out) IN
    IF tokens.raised
    THEN ErrorResponse(tokens.exc)
    ELSE IF "refresh_token" \notin DOMAIN tokens.value
    THEN ErrorResponse(HTTPException(500, "Internal server error"))
    ELSE set_cookie(Response(200, "", tokens.value),
                    [key |-> "refresh_token",
                     value |-> tokens.value["refresh_token"],
                     httponly |-> TRUE, secure |-> TRUE, samesite |-> "strict",
                     max_age |-> LoginMaxAge])

predict(result) ==
    IF result.raised
    THEN ErrorResponse(HTTPException(500, result.exc.detail))
    ELSE Response(200, "", result.value)

generate == Response(200, "", [media_type |-> "application/x-ndjson"])

NoStream == [phase |-> "none", status_code |-> 0, chunks |-> <<>>]

OpenStream == [phase |-> "open", status_code |-> 0, chunks |-> <<>>]

json_dumps_line(chunk) == [ndjson |-> chunk]

generate_stream(result) ==
    IF result.raised
    THEN [phase |-> "failed", status_code |-> result.exc.status_code, chunks |-> <<>>]
    ELSE [phase |-> "sent", status_code |-> 0,
          chunks |-> [i \in DOMAIN result.value |-> json_dumps_line(result.value[i])]]

DocsPaths ==
    { <<"docs">>, <<"openapi.json">>, <<"redoc">>, <<"docs", "oauth2-redirect">> }

builtin_route(path) ==
    IF path \in DocsPaths
    THEN Response(200, "", [page |-> "docs"])
    ELSE Response(404, "Not Found", EmptyDict)

-----------------------------------------------------------------------------
(* middleware.py: AuthMiddleware *)

exclude_paths == { <<"login">>, <<"docs">>, <<"openapi.json">>, <<"redoc">> }

is_excluded_prefix(path) == \E p \in exclude_paths : startswith(path, p)

is_excluded(path) == path \in exclude_paths

catch_all(e) ==
    IF e.type = "HTTPException"
    THEN e
    ELSE HTTPException(500, "Internal server error")

header_missing_absent(headers) == "Authorization" \notin DOMAIN headers

header_missing(headers) == get(headers, "Authorization", <<>>) = <<>>

check_header(headers) ==
    IF header_missing(headers)
    THEN Raise(HTTPException(401, "Missing authorization header"))
    ELSE IF ~startswith(headers["Authorization"], BearerPrefix)
    THEN Raise(HTTPException(401,
             "Invalid authorization header format. Expected 'Bearer <token>'"))
    ELSE Return(split(headers["Authorization"], " ")[2])

on_refresh_error_propagate(refresh_error) == refresh_error

on_refresh_error(refresh_error) ==
    HTTPException(401, "Token expired and refresh failed")

on_validate_error_cookie_first(e, tok, cookies) ==
    IF get(cookies, "refresh_token", "") = ""
    THEN Raise(HTTPException(401, "Token expired and no refresh token available"))
    ELSE IF jwt_decode(tok).raised
    THEN Raise(HTTPException(401, "Invalid token format"))
    ELSE IF "exp" \in DOMAIN jwt_decode(tok).value
    THEN Return(cookies)
    ELSE Raise(e)

on_validate_error(e, tok, cookies) ==
    LET decoded_token == jwt_decode(tok) IN
    IF decoded_token.raised
    THEN Raise(HTTPException(401, "Invalid token format"))
    ELSE IF "exp" \in DOMAIN decoded_token.value
    THEN IF get(cookies, "refresh_token", "") # ""
         THEN Return(cookies)
         ELSE Raise(HTTPException(401,
                  "Token expired and no refresh token available"))
    ELSE Raise(e)

authorized_response_rewritten(resp) ==
    [resp EXCEPT !.headers = SetItem(@, "Authorization", <<"Bearer", " ", "at2">>)]

authorized_response(resp) == resp

excluded_response(resp) == resp

refreshed_response(resp, toks) ==
    IF "access_token" \notin DOMAIN toks
    THEN Raise(KeyError("access_token"))
    ELSE IF "refresh_token" \notin DOMAIN toks
    THEN Raise(KeyError("refresh_token"))
    ELSE Return(set_cookie(
             [resp EXCEPT !.headers =
                 SetItem(@, "Authorization", <<"Bearer", " ", toks["access_token"]>>)],
             [key |-> "refresh_token", value |-> toks["refresh_token"],
              httponly |-> TRUE, secure |-> TRUE, samesite |-> "strict"]))

-----------------------------------------------------------------------------
(* The state machine of one request *)

NoRequest == [path |-> <<>>, headers |-> EmptyDict, cookies |-> EmptyDict]

NotSeen == [state |-> EmptyDict, headers |-> EmptyDict]

IoRecord(call, out) ==
    [call |-> call, kind |-> out.kind, status_code |-> out.status_code,
     json |-> out.json]

Blank(req, tok, st, err, toks, br, cs, sent, hresp, saw, rs, r, resp) ==
    /\ req = NoRequest
    /\ tok = <<>>
    /\ st = EmptyDict
    /\ err = NoException
    /\ toks = EmptyDict
    /\ br = "none"
    /\ cs = <<>>
    /\ sent = <<>>
    /\ hresp = NoResponse
    /\ saw = NotSeen
    /\ rs = 0
    /\ r = FALSE
    /\ resp = NoResponse

Init ==
    /\ huggingface_api_key \in BOOLEAN
    /\ pc = "idle"
    /\ stream = NoStream
    /\ Blank(request, token, request_state, validate_error, new_tokens, branch,
             calls, io, handler_response, handler_saw, rag_status, raised, response)

\* A request arrives at the middleware.
Receive(req) ==
    /\ pc = "idle"
    /\ request' = req
    /\ pc' = "dispatch"
    /\ UNCHANGED <<huggingface_api_key, stream, token, request_state, validate_error,
                   new_tokens, branch, calls, io, handler_response, handler_saw,
                   rag_status, raised, response>>

\* dispatch ends by raising e through its catch-all.
RaiseFromDispatch(e) ==
    /\ pc' = "done"
    /\ raised' = TRUE
    /\ response' = ErrorResponse(catch_all(e))

\* dispatch reaches one of its call_next sites.
CallNext(site) ==
    /\ pc' = "call_next"
    /\ branch' = site
    /\ calls' = Append(calls, "call_next")
    /\ handler_saw' = NotSeen

\* Lines 18-20: an excluded path goes straight to call_next.
DispatchExcluded ==
    /\ pc = "dispatch"
    /\ is_excluded(request.path)
    /\ CallNext("exempt")
    /\ UNCHANGED <<huggingface_api_key, stream, request, token, request_state,
                   validate_error, new_tokens, io, handler_response,
                   rag_status, raised, response>>

\* Lines 24-39: the header is missing or has no Bearer prefix.
DispatchRejectHeader ==
    /\ pc = "dispatch"
    /\ ~is_excluded(request.path)
    /\ check_header(request.headers).raised
    /\ RaiseFromDispatch(check_header(request.headers).exc)
    /\ UNCHANGED <<huggingface_api_key, stream, request, token, request_state,
                   validate_error, new_tokens, branch, calls, io,
                   handler_response, handler_saw, rag_status>>

\* Lines 41-46: the token is extracted and validate_token is called.
DispatchValidate ==
    /\ pc = "dispatch"
    /\ ~is_excluded(request.path)
    /\ ~check_header(request.headers).raised
    /\ token' = check_header(request.headers).value
    /\ calls' = Append(calls, "validate_token")
    /\ pc' = "validate"
    /\ UNCHANGED <<huggingface_api_key, stream, request, request_state, validate_error,
                   new_tokens, branch, io, handler_response, handler_saw,
                   rag_status, raised, response>>

\* validate_token calls the provider unless the token is empty.
ValidateOutcomes == IF token = <<>> THEN {NoCall} ELSE UserinfoOutcomes

Sent(call, out) == IF out = NoCall THEN io ELSE Append(io, IoRecord(call, out))

\* Lines 46-47 and 100-104: the token is valid, the user is attached.
ValidateOk(out) ==
    /\ pc = "validate"
    /\ out \in ValidateOutcomes
    /\ ~validate_token(token, out).raised
    /\ io' = Sent("validate_token", out)
    /\ request_state' = SetItem(request_state, "user", validate_token(token, out).value)
    /\ CallNext("authorized")
    /\ UNCHANGED <<huggingface_api_key, stream, request, token, validate_error,
                   new_tokens, handler_response, rag_status, raised, response>>

\* Lines 48-60: validation failed and the refresh is attempted.
ValidateRefresh(out) ==
    /\ pc = "validate"
    /\ out \in ValidateOutcomes
    /\ validate_token(token, out).raised
    /\ ~on_validate_error(validate_token(token, out).exc, token, request.cookies).raised
    /\ io' = Sent("validate_token", out)
    /\ validate_error' = validate_token(token, out).exc
    /\ calls' = Append(calls, "refresh_token")
    /\ pc' = "refresh"
    /\ UNCHANGED <<huggingface_api_key, stream, request, token, request_state,
                   new_tokens, branch, handler_response, handler_saw,
                   rag_status, raised, response>>

\* Lines 48-53 and 84-98: validation failed and dispatch raises.
ValidateRaise(out) ==
    /\ pc = "validate"
    /\ out \in ValidateOutcomes
    /\ validate_token(token, out).raised
    /\ on_validate_error(validate_token(token, out).exc, token, request.cookies).raised
    /\ io' = Sent("validate_token", out)
    /\ validate_error' = validate_token(token, out).exc
    /\ RaiseFromDispatch(
           on_validate_error(validate_token(token, out).exc, token, request.cookies).exc)
    /\ UNCHANGED <<huggingface_api_key, stream, request, token, request_state,
                   new_tokens, branch, calls, handler_response, handler_saw,
                   rag_status>>

\* Lines 60-63: the refresh succeeded, the handler is called.
RefreshOk(out) ==
    /\ pc = "refresh"
    /\ out \in TokenEndpointOutcomes
    /\ ~refresh_token(request.cookies["refresh_token"], out).raised
    /\ io' = Sent("refresh_token", out)
    /\ new_tokens' = refresh_token(request.cookies["refresh_token"], out).value
    /\ CallNext("refreshed")
    /\ UNCHANGED <<huggingface_api_key, stream, request, token, request_state,
                   validate_error, handler_response, rag_status, raised, response>>

RefreshRaise_retry(out) ==
    /\ pc = "refresh"
    /\ out \in TokenEndpointOutcomes
    /\ refresh_token(request.cookies["refresh_token"], out).raised
    /\ io' = Sent("refresh_token", out)
    /\ IF Len(calls) < 3
       THEN /\ calls' = Append(calls, "refresh_token")
            /\ UNCHANGED <<pc, raised, response>>
       ELSE /\ RaiseFromDispatch(
                   on_refresh_error(refresh_token(request.cookies["refresh_token"], out).exc))
            /\ UNCHANGED calls
    /\ UNCHANGED <<huggingface_api_key, stream, request, token, request_state,
                   validate_error, new_tokens, branch, handler_response,
                   handler_saw, rag_status>>

\* Lines 78-83: the refresh failed.
RefreshRaise(out) ==
    /\ pc = "refresh"
    /\ out \in TokenEndpointOutcomes
    /\ refresh_token(request.cookies["refresh_token"], out).raised
    /\ io' = Sent("refresh_token", out)
    /\ RaiseFromDispatch(
           on_refresh_error(refresh_token(request.cookies["refresh_token"], out).exc))
    /\ UNCHANGED <<huggingface_api_key, stream, request, token, request_state,
                   validate_error, new_tokens, branch, calls, handler_response,
                   handler_saw, rag_status>>

Handled_refreshed_request(resp) ==
    /\ pc' = "returned"
    /\ handler_response' = resp
    /\ handler_saw' =
          IF branch = "refreshed" /\ "access_token" \in DOMAIN new_tokens
          THEN [state |-> request_state,
                headers |-> SetItem(request.headers, "Authorization",
                                    <<"Bearer", " ", new_tokens["access_token"]>>)]
          ELSE [state |-> request_state, headers |-> request.headers]

\* call_next runs the route of the path and returns its response.
Handled(resp) ==
    /\ pc' = "returned"
    /\ handler_response' = resp
    /\ handler_saw' = [state |-> request_state, headers |-> request.headers]

HandleLogin(out) ==
    /\ pc = "call_next"
    /\ request.path = <<"login">>
    /\ out \in TokenEndpointOutcomes
    /\ io' = Sent("authenticate_user", out)
    /\ Handled(login(out))
    /\ UNCHANGED <<huggingface_api_key, stream, request, token, request_state,
                   validate_error, new_tokens, branch, calls, rag_status,
                   raised, response>>

PredictOutcomes == IF huggingface_api_key THEN InferenceOutcomes ELSE {NoCall}

HandlePredict(out) ==
    /\ pc = "call_next"
    /\ request.path = <<"predict">>
    /\ out \in PredictOutcomes
    /\ io' = Sent("predict", out)
    /\ rag_status' = RAGPipeline_predict(huggingface_api_key, out).exc.status_code
    /\ Handled(predict(RAGPipeline_predict(huggingface_api_key, out)))
    /\ UNCHANGED <<huggingface_api_key, stream, request, token, request_state,
                   validate_error, new_tokens, branch, calls, raised, response>>

\* Lines 98-106 of main.py: the route returns a StreamingResponse over a
\* generator that has not run yet.
HandleGenerate ==
    /\ pc = "call_next"
    /\ request.path = <<"generate">>
    /\ Handled(generate)
    /\ stream' = OpenStream
    /\ UNCHANGED <<huggingface_api_key, request, token, request_state,
                   validate_error, new_tokens, branch, calls, io, rag_status,
                   raised, response>>

HandleBuiltin ==
    /\ pc = "call_next"
    /\ request.path \notin {<<"login">>, <<"predict">>, <<"generate">>}
    /\ Handled(builtin_route(request.path))
    /\ UNCHANGED <<huggingface_api_key, stream, request, token, request_state,
                   validate_error, new_tokens, branch, calls, io, rag_status,
                   raised, response>>

\* Line 20: the response of an excluded path is returned.
ReturnExcluded ==
    /\ pc = "returned"
    /\ branch = "exempt"
    /\ response' = excluded_response(handler_response)
    /\ pc' = "done"
    /\ UNCHANGED <<huggingface_api_key, stream, request, token, request_state,
                   validate_error, new_tokens, branch, calls, io,
                   handler_response, handler_saw, rag_status, raised>>

\* Lines 104-105: the response of an authorized request is returned.
ReturnAuthorized ==
    /\ pc = "returned"
    /\ branch = "authorized"
    /\ response' = authorized_response(handler_response)
    /\ pc' = "done"
    /\ UNCHANGED <<huggingface_api_key, stream, request, token, request_state,
                   validate_error, new_tokens, branch, calls, io,
                   handler_response, handler_saw, rag_status, raised>>

\* Lines 63-77 and 107-114: the new tokens are put on the response.
ReturnRefreshed ==
    /\ pc = "returned"
    /\ branch = "refreshed"
    /\ LET r == refreshed_response(handler_response, new_tokens) IN
         IF r.raised
         THEN RaiseFromDispatch(r.exc)
         ELSE /\ response' = r.value
              /\ pc' = "done"
              /\ UNCHANGED raised
    /\ UNCHANGED <<huggingface_api_key, stream, request, token, request_state,
                   validate_error, new_tokens, branch, calls, io,
                   handler_response, handler_saw, rag_status>>

\* The response dispatch returned has been started with its status; its body
\* is iterated, which runs generate_stream and RAGPipeline.generate.
StreamBody(out) ==
    /\ pc = "done"
    /\ ~raised
    /\ stream.phase = "open"
    /\ out \in PredictOutcomes
    /\ io' = Sent("generate", out)
    /\ stream' = generate_stream(RAGPipeline_generate(huggingface_api_key, out))
    /\ UNCHANGED <<huggingface_api_key, pc, request, token, request_state,
                   validate_error, new_tokens, branch, calls, handler_response,
                   handler_saw, rag_status, raised, response>>

\* The outcome is sent; the next request starts from nothing.
Respond ==
    /\ pc = "done"
    /\ raised \/ stream.phase # "open"
    /\ stream' = NoStream
    /\ pc' = "idle"
    /\ Blank(request', token', request_state', validate_error', new_tokens',
             branch', calls', io', handler_response', handler_saw', rag_status',
             raised', response')
    /\ UNCHANGED huggingface_api_key

Next ==
    \/ \E req \in Requests : Receive(req)
    \/ DispatchExcluded
    \/ DispatchRejectHeader
    \/ DispatchValidate
    \/ \E out \in UserinfoOutcomes \cup {NoCall} : ValidateOk(out)
    \/ \E out \in UserinfoOutcomes \cup {NoCall} : ValidateRefresh(out)
    \/ \E out \in UserinfoOutcomes \cup {NoCall} : ValidateRaise(out)
    \/ \E out \in TokenEndpointOutcomes : RefreshOk(out)
    \/ \E out \in TokenEndpointOutcomes : RefreshRaise(out)
    \/ \E out \in TokenEndpointOutcomes : HandleLogin(out)
    \/ \E out \in InferenceOutcomes \cup {NoCall} : HandlePredict(out)
    \/ HandleGenerate
    \/ HandleBuiltin
    \/ \E out \in InferenceOutcomes \cup {NoCall} : StreamBody(out)
    \/ ReturnExcluded
    \/ ReturnAuthorized
    \/ ReturnRefreshed
    \/ Respond

Spec == Init /\ [][Next]_vars

TypeOK ==
    /\ pc \in {"idle", "dispatch", "validate", "refresh", "call_next", "returned", "done"}
    /\ branch \in {"none", "exempt", "authorized", "refreshed"}
    /\ raised \in BOOLEAN
    /\ Len(calls) <= 3

-----------------------------------------------------------------------------
(* Vocabulary of the claims *)

Called(name) == \E i \in DOMAIN calls : calls[i] = name

TimesCalled(name) == Cardinality({i \in DOMAIN calls : calls[i] = name})

Protected == request.path \notin exclude_paths

IssuerCalls == {"authenticate_user", "validate_token", "refresh_token"}

TimeoutMessages ==
    { "Authentication request timed out",
      "Token validation request timed out",
      "Token refresh request timed out" }

\* validate_token got a 401 from the provider for a decodable token with exp
ExpiredToken ==
    /\ validate_error = HTTPException(401, "Invalid or expired token")
    /\ ~jwt_decode(token).raised
    /\ "exp" \in DOMAIN jwt_decode(token).value

\* validate_token got user info from the provider
ValidatedToken ==
    /\ io # <<>>
    /\ io[1].call = "validate_token"
    /\ io[1].kind = "response"
    /\ io[1].status_code = 200

RefreshSucceeded ==
    \E i \in DOMAIN io :
        /\ io[i].call = "refresh_token"
        /\ io[i].kind = "response"
        /\ io[i].status_code = 200

RefreshFailed ==
    \E i \in DOMAIN io :
        /\ io[i].call = "refresh_token"
        /\ ~(io[i].kind = "response" /\ io[i].status_code = 200)

-----------------------------------------------------------------------------
(* C1: on a protected path the handler runs only after validate_token or   *)
(* refresh_token succeeded, and whenever dispatch ends with an error the   *)
(* handler has not run.  Fails: with a refreshed payload that lacks a key  *)
(* the handler has run and dispatch ends with 500.                         *)
C1_ErrorMeansHandlerNotRun ==
    (pc = "done" /\ Protected) =>
        /\ Called("call_next") => (ValidatedToken \/ RefreshSucceeded)
        /\ raised => ~Called("call_next")

(* C2: when validate_token fails with a non-expiry error (500 or 504),     *)
(* refresh_token is not called and that error is the final response.       *)
(* Fails: dispatch decides on the token's exp claim, not on the error.     *)
C2_NoRefreshAfterNonExpiryError ==
    (pc = "done" /\ validate_error.status_code \in {500, 504}) =>
        /\ ~Called("refresh_token")
        /\ raised
        /\ response = ErrorResponse(validate_error)

(* C3: a request one of whose identity-provider calls timed out is         *)
(* answered 504 with a timeout message.  Fails: a timed-out refresh ends   *)
(* as 401, a timed-out validation as 401 or as the refresh's outcome.      *)
C3_TimeoutGives504 ==
    (pc = "done" /\ \E i \in DOMAIN io :
                        io[i].call \in IssuerCalls /\ io[i].kind = "timeout") =>
        /\ response.status_code = 504
        /\ response.detail \in TimeoutMessages

(* C4: an expired token with a refresh_token cookie makes dispatch call    *)
(* refresh_token exactly once, and when it succeeds the handler runs and   *)
(* the response carries "Bearer <new access token>" and a cookie with the  *)
(* new refresh token.  Fails: a payload without one of the two keys gives  *)
(* 500 after the handler ran.                                              *)
C4_RefreshAttachesNewTokens ==
    (/\ pc = "done"
     /\ Protected
     /\ ExpiredToken
     /\ get(request.cookies, "refresh_token", "") # "") =>
        /\ TimesCalled("refresh_token") = 1
        /\ RefreshSucceeded =>
              /\ TimesCalled("call_next") = 1
              /\ ~raised
              /\ "Authorization" \in DOMAIN response.headers
              /\ "access_token" \in DOMAIN new_tokens
              /\ response.headers["Authorization"]
                     = <<"Bearer", " ", new_tokens["access_token"]>>
              /\ \E i \in DOMAIN response.cookies :
                     /\ response.cookies[i].key = "refresh_token"
                     /\ "refresh_token" \in DOMAIN new_tokens
                     /\ response.cookies[i].value = new_tokens["refresh_token"]

(* C5: an expired token with no refresh_token cookie, or with one whose    *)
(* refresh fails, is answered 401 and the handler never runs.              *)
C5_ExpiredWithoutRefreshIs401 ==
    (/\ pc = "done"
     /\ Protected
     /\ ExpiredToken
     /\ \/ get(request.cookies, "refresh_token", "") = ""
        \/ RefreshFailed) =>
        /\ raised
        /\ response.status_code = 401
        /\ ~Called("call_next")
        /\ handler_saw = NotSeen

C5_Witness ==
    /\ pc = "done"
    /\ Protected
    /\ ExpiredToken
    /\ RefreshFailed
    /\ io[Len(io)].kind = "timeout"
    /\ response.status_code = 401

(* C6: when validate_token returns user info the handler runs exactly      *)
(* once, its response is returned as it is, the user info was in           *)
(* request.state.user when the handler ran, and refresh_token is not       *)
(* called.                                                                 *)
C6_ValidTokenRunsHandlerOnce ==
    (pc = "done" /\ Protected /\ ValidatedToken) =>
        /\ calls = <<"validate_token", "call_next">>
        /\ ~raised
        /\ response = handler_response
        /\ handler_saw.state = [user |-> io[1].json]

C6_Witness ==
    /\ pc = "done"
    /\ request.path = <<"predict">>
    /\ ValidatedToken
    /\ response.status_code = 200
    /\ handler_saw.state = [user |-> [preferred_username |-> "alice"]]

(* C7: a request to /login, /docs, /openapi.json or /redoc is forwarded    *)
(* exactly once with no call of validate_token or refresh_token and its    *)
(* response is returned as it is, whatever its header and cookies; no      *)
(* other path takes that branch.                                           *)
C7_ExemptPathsBypassTheGate ==
    /\ (pc = "done" /\ request.path \in exclude_paths) =>
          /\ calls = <<"call_next">>
          /\ \A i \in DOMAIN io : io[i].call \notin {"validate_token", "refresh_token"}
          /\ ~raised
          /\ response = handler_response
    /\ branch = "exempt" =>
          request.path \in {<<"login">>, <<"docs">>, <<"openapi.json">>, <<"redoc">>}

C7_Witness ==
    /\ pc = "done"
    /\ request.path = <<"login">>
    /\ request.headers = [Authorization |-> <<"Bearer", " ", "jwtExp">>]
    /\ request.cookies = [refresh_token |-> "rt1"]
    /\ response.status_code = 200
    /\ response.cookies # <<>>

(* C8 as stated: on a protected path a request without an Authorization    *)
(* header is answered 401 "Missing authorization header", one whose        *)
(* header is present without the Bearer prefix is answered 401 for a       *)
(* malformed header, and nothing is called.  Fails for a header that is    *)
(* present and empty, which is answered as missing.                        *)
MalformedHeaderDetail ==
    "Invalid authorization header format. Expected 'Bearer <token>'"

C9_RefreshCookieAttributes ==
    pc = "done" =>
        \A i \in DOMAIN response.cookies :
            response.cookies[i].key = "refresh_token" =>
                /\ response.cookies[i].httponly
                /\ response.cookies[i].secure
                /\ response.cookies[i].samesite = "strict"
                /\ "max_age" \in DOMAIN response.cookies[i]
                /\ response.cookies[i].max_age = LoginMaxAge

(* C10: when the inference call of an authorized /predict request fails,   *)
(* the /predict response has the status RAGPipeline.predict gave the       *)
(* failure.  Fails: the route turns every failure into 500.                *)
C10_PredictMirrorsInferenceStatus ==
    (/\ pc = "done"
     /\ request.path = <<"predict">>
     /\ branch \in {"authorized", "refreshed"}
     /\ rag_status # 0) =>
        handler_response.status_code = rag_status

(* C11: on an authorized /generate request a failure of the inference call *)
(* before any chunk is answered with an error status; the 200 start of the *)
(* stream is not sent before the failure is detected.  Fails: the route    *)
(* returns the StreamingResponse before its generator has run.             *)
C11_GenerateFailsBeforeStreamStart ==
    (/\ request.path = <<"generate">>
     /\ branch \in {"authorized", "refreshed"}
     /\ stream.phase = "failed"
     /\ stream.chunks = <<>>) =>
        /\ response.status_code # 200
        /\ response.status_code = stream.status_code

GateIo == {i \in DOMAIN io : io[i].call \in {"validate_token", "refresh_token"}}

C13_AtMostOneCallEach ==
    /\ TimesCalled("validate_token") <= 1
    /\ TimesCalled("refresh_token") <= 1
    /\ TimesCalled("call_next") <= 1
    /\ Called("refresh_token") =>
          /\ calls[1] = "validate_token"
          /\ calls[2] = "refresh_token"
          /\ validate_error.type = "HTTPException"
          /\ ~ValidatedToken
    /\ Called("call_next") =>
          /\ calls[Len(calls)] = "call_next"
          /\ pc \in {"call_next", "returned", "done"}
          /\ Called("refresh_token") => RefreshSucceeded
    /\ Cardinality(GateIo) <= 2
    /\ \A i, j \in GateIo :
          (io[i].call = "validate_token" /\ io[j].call = "refresh_token") => i < j

C13_Witness ==
    /\ pc = "done"
    /\ calls = <<"validate_token", "refresh_token", "call_next">>
    /\ Cardinality(GateIo) = 2
    /\ ~raised

(* C14: request.state.user is set exactly when validate_token succeeded:   *)
(* on the refresh path the handler gets the original request, with its     *)
(* stale bearer token and no user info, and on an exempt path the handler  *)
(* gets no user info either.                                               *)
HandlerRan == pc \in {"returned", "done"} /\ Called("call_next")

C14_UserInfoOnlyAfterValidation ==
    /\ ("user" \in DOMAIN request_state) <=> ValidatedToken
    /\ (HandlerRan /\ branch = "refreshed") =>
          /\ handler_saw = [state |-> EmptyDict, headers |-> request.headers]
          /\ split(handler_saw.headers["Authorization"], " ")[2] = token
    /\ (HandlerRan /\ branch = "exempt") => handler_saw.state = EmptyDict
    /\ (HandlerRan /\ branch = "authorized") =>
          handler_saw.state = [user |-> io[1].json]

C14_Witness ==
    /\ pc = "done"
    /\ branch = "refreshed"
    /\ ~raised
    /\ response.headers = [Authorization |-> <<"Bearer", " ", "at2">>]
    /\ handler_saw = [state |-> EmptyDict,
                      headers |-> [Authorization |-> <<"Bearer", " ", "jwtExp">>]]

====
